---- MODULE Spec2Model ----
(***************************************************************************)
(* Model of the UGL environment registry (ugl/services.py,                 *)
(* ugl/json_store.py, ugl/environment.py, ugl/filesystem.py) and of the    *)
(* web front end's task manager (ugl/webapp.py).                           *)
(*                                                                         *)
(* Strings are sequences of one-character strings, so that the string      *)
(* functions of the code (strip, replace, re.sub, shlex.split) are         *)
(* computed character by character.  Python's None is the value None.      *)
(* A file is a sequence of length 0 (absent) or 1 (its content).           *)
(***************************************************************************)
EXTENDS Integers, Sequences, FiniteSets, TLC

VARIABLES
    platform,    \* "posix" | "windows": the flavour of pathlib.Path
    templateOk,  \* select_template_source finds a template holding gam.exe
    json,        \* the file config.json_path: <<>> or <<document>>
    backups,     \* files under json_backup_root: timestamp -> document
    now,         \* datetime.now() at one-second granularity
    fs,          \* client folders on disk: path -> [gam_exe, gam_dir, tokens]
    session,     \* the EnvironmentSession held by the caller: <<>> or <<session>>
    children,    \* the child processes the last run_command spawned
    sink,        \* the lines the last run_command forwarded to its logger
    pending,     \* per caller: <<>> or <<the write its call in progress will make>>
    tasks,       \* TaskManager._tasks in insertion order, each with its worker's position
    overwrites,  \* history: number of save_json calls that found a document
    last         \* history: the last call made and what it returned

vars == <<platform, templateOk, json, backups, now, fs, session, children, sink,
          pending, tasks, overwrites, last>>

\* the installation, fixed once chosen
setup == <<platform, templateOk>>

\* what session preparation and command routing write
route == <<session, children, sink>>

----------------------------------------------------------------------------
(* Bounds of the model *)

MaxEnvs == 2
MaxTime == 1
MaxSaves == 2
MaxPathLen == 3
MaxWorkers == 2
MaxTasks == 2
MaxElements == 2

\* the callers that may be inside a registry call at the same time
Workers == 1..MaxWorkers

----------------------------------------------------------------------------
(* Characters and strings *)

None == <<"<None>">>

UpperSeq ==
    <<"A","B","C","D","E","F","G","H","I","J","K","L","M",
      "N","O","P","Q","R","S","T","U","V","W","X","Y","Z">>

LowerSeq ==
    <<"a","b","c","d","e","f","g","h","i","j","k","l","m",
      "n","o","p","q","r","s","t","u","v","w","x","y","z">>

UpperChars == {UpperSeq[i] : i \in 1..Len(UpperSeq)}

LowerChars == {LowerSeq[i] : i \in 1..Len(LowerSeq)}

\* str.lower()
lower(s) ==
    [i \in 1..Len(s) |->
        IF s[i] \in UpperChars
        THEN LowerSeq[CHOOSE k \in 1..Len(UpperSeq) : UpperSeq[k] = s[i]]
        ELSE s[i]]

\* str.rstrip()
rstrip(s) ==
    LET keep == {i \in 1..Len(s) : s[i] \notin {" ", "\t", "\n", "\r"}}
    IN  IF keep = {} THEN <<>>
        ELSE SubSeq(s, 1, CHOOSE i \in keep : \A j \in keep : i >= j)

DigitChars == {"0","1","2","3","4","5","6","7","8","9"}

Whitespace == {" ", "\t", "\n", "\r"}

\* str.strip(chars): drop the leading and trailing characters that are in chars
Strip(s, chars) ==
    LET keep == {i \in 1..Len(s) : s[i] \notin chars}
    IN  IF keep = {} THEN <<>>
        ELSE SubSeq(s, CHOOSE i \in keep : \A j \in keep : i <= j,
                       CHOOSE i \in keep : \A j \in keep : i >= j)

\* str.replace("/", "\\")
ReplaceSlash(s) == [i \in 1..Len(s) |-> IF s[i] = "/" THEN "\\" ELSE s[i]]

\* filesystem.normalise_path
normalise_path(path_value) ==
    IF path_value = None THEN None
    ELSE ReplaceSlash(Strip(Strip(path_value, Whitespace), {"\""}))

KeepChar(c) == c \in UpperChars \cup LowerChars \cup DigitChars \cup {"-", " "}

NotSpace(c) == c \notin Whitespace

\* filesystem.safe_folder_key
safe_folder_key(name) == SelectSeq(SelectSeq(name, KeepChar), NotSpace)

----------------------------------------------------------------------------
(* Paths: pathlib.Path on the platform *)

Sep == IF platform = "windows" THEN "\\" ELSE "/"

\* config.clients_root, as str() prints it
ClientsRoot == IF platform = "windows" THEN <<"C", ":", "\\", "r">> ELSE <<"/", "r">>

\* str(clients_root / safe_key): joining the empty key leaves the root
JoinPath(root, key) == IF key = <<>> THEN root ELSE root \o <<Sep>> \o key

\* str(Path(s)): Windows reads "/" as a separator and prints "\"
FsPath(s) == IF platform = "windows" THEN ReplaceSlash(s) ELSE s

\* q lies below directory p
IsUnder(q, p) ==
    /\ Len(q) > Len(p) + 1
    /\ SubSeq(q, 1, Len(p)) = p
    /\ q[Len(p) + 1] = Sep

NewFolder == [gam_exe |-> FALSE, gam_dir |-> FALSE, tokens |-> FALSE]

\* Path.mkdir(parents=True, exist_ok=True) for each path
ensure_directories(disk, paths) ==
    [p \in DOMAIN disk \cup paths |-> IF p \in DOMAIN disk THEN disk[p] ELSE NewFolder]

\* filesystem.clone_template: copies the template, gam.exe included
clone_template(disk, destination) ==
    LET d == ensure_directories(disk, {destination})
    IN  [d EXCEPT ![destination].gam_exe = TRUE]

\* filesystem.ensure_gam_structure
ensure_gam_structure(disk, base_path) ==
    LET d == ensure_directories(disk, {base_path})
    IN  [d EXCEPT ![base_path].gam_dir = TRUE]

\* filesystem.remove_oauth_tokens
remove_oauth_tokens(disk, base_path) == [disk EXCEPT ![base_path].tokens = FALSE]

\* a slip: the tree is left on disk
rmtree_kept(disk, path) == disk

\* shutil.rmtree(path)
rmtree(disk, path) ==
    [p \in {q \in DOMAIN disk : q # path /\ ~IsUnder(q, path)} |-> disk[p]]

----------------------------------------------------------------------------
(* JSON documents and Environment records *)

\* dict.get(key): None when the key is missing
Get(d, k) == IF k \in DOMAIN d THEN d[k] ELSE None

Truthy(v) == v # None /\ v # <<>>

\* Python's  a or b
Or(a, b) == IF Truthy(a) THEN a ELSE b

\* d[k] = v
WithKey(d, k, v) == [x \in DOMAIN d \cup {k} |-> IF x = k THEN v ELSE d[x]]

\* Environment.from_dict
from_dict(data) ==
    [name  |-> Or(Or(Get(data, "Name"), Get(data, "name")), <<>>),
     path  |-> Or(Or(Get(data, "Path"), Get(data, "path")), <<>>),
     admin |-> Or(Get(data, "Admin"), Get(data, "admin")),
     color |-> Or(Get(data, "Color"), Get(data, "color"))]

\* dataclasses.asdict(env)
asdict(env) ==
    [name |-> env.name, path |-> env.path, admin |-> env.admin, color |-> env.color]

\* json_store.load_json: <<>> is the load failure (None), <<content>> a document
load_json(file) ==
    IF file = <<>> THEN <<>>
    ELSE IF "Environments" \notin DOMAIN file[1]
         THEN <<WithKey(file[1], "Environments", <<>>)>>
         ELSE <<file[1]>>

\* environment.load_environments
load_environments(data) ==
    [i \in 1..Len(data["Environments"]) |-> from_dict(data["Environments"][i])]

\* a slip: a new document is made of the records alone
set_environments_alone(data, environments) ==
    [Environments |-> [i \in 1..Len(environments) |-> asdict(environments[i])]]

\* json_store.set_environments
set_environments(data, environments) ==
    WithKey(data, "Environments",
            [i \in 1..Len(environments) |-> asdict(environments[i])])

\* a slip: the backup is taken after the document is overwritten
save_json_backup_late(file, bk, t, data) ==
    IF file # <<>>
    THEN [json |-> <<data>>, backups |-> WithKey(bk, t, data), backup_path |-> <<t>>]
    ELSE [json |-> <<data>>, backups |-> bk, backup_path |-> <<>>]

\* json_store.save_json at clock second t: the file, the backups, the path returned
save_json(file, bk, t, data) ==
    IF file # <<>>
    THEN [json |-> <<data>>, backups |-> WithKey(bk, t, file[1]), backup_path |-> <<t>>]
    ELSE [json |-> <<data>>, backups |-> bk, backup_path |-> <<>>]

\* json_store.ensure_json_exists
ensure_json_exists(file) ==
    IF file = <<>> THEN <<[Environments |-> <<>>]>> ELSE file

\* environment.sanitise_environment_paths
sanitise_environment_paths(environments) ==
    LET Clean(i) == Or(normalise_path(environments[i].path), <<>>)
        flagged == SelectSeq([i \in 1..Len(environments) |-> i],
                             LAMBDA i : environments[i].path # Clean(i))
    IN  [k \in 1..Len(flagged) |->
            [index    |-> flagged[k] - 1,
             name     |-> environments[flagged[k]].name,
             original |-> environments[flagged[k]].path,
             clean    |-> Clean(flagged[k])]]

----------------------------------------------------------------------------
(* Inputs *)

NameSet == { <<"A", "B">>, <<"A", " ", "B">>, <<"!">> }

\* (admin, color) pairs handed to create_environment
AttrSet == { <<None, None>>, <<<<"x">>, <<>>>> }

----------------------------------------------------------------------------
(* LauncherService *)

\* LauncherService._load_data: <<>> stands for raising LauncherServiceError
LoadData == load_json(json)

\* a slip: the folder is named by the raw name
DerivedPathRawName(name) == JoinPath(ClientsRoot, name)

\* the candidate folder of create_environment: str(clients_root / safe_key)
DerivedPath(name) == JoinPath(ClientsRoot, safe_folder_key(name))

\* a slip: only the folder is compared, not the name
AlreadyExistsPathOnly(environments, name) ==
    \E i \in 1..Len(environments) :
        normalise_path(environments[i].path) = DerivedPath(name)

\* a slip: only the name is compared, not the folder
AlreadyExistsNameOnly(environments, name) ==
    \E i \in 1..Len(environments) : environments[i].name = name

\* the duplicate test of create_environment
AlreadyExists(environments, name) ==
    \E i \in 1..Len(environments) :
        \/ environments[i].name = name
        \/ normalise_path(environments[i].path) = DerivedPath(name)

\* a slip: the new record is put first
AddEnvironmentFirst(environments, environment) == <<environment>> \o environments

\* environments.append(environment)
AddEnvironment(environments, environment) == Append(environments, environment)

\* the folder of a new environment: directories, template, .gam, tokens
ProvisionFolder(disk, path, cloned) ==
    LET d1 == ensure_directories(disk, {ClientsRoot, path})
        d2 == IF cloned THEN clone_template(d1, path) ELSE d1
        d3 == ensure_gam_structure(d2, path)
    IN  remove_oauth_tokens(d3, path)

\* LauncherService.list_environments
list_environments == IF LoadData = <<>> THEN <<>> ELSE load_environments(LoadData[1])

\* LauncherService.create_environment
create_environment(name, admin, color) ==
    IF LoadData = <<>>
    THEN /\ last' = [op |-> "create", name |-> name, result |-> "LauncherServiceError"]
         /\ UNCHANGED <<setup, tasks, pending, route, json, backups, now, fs, overwrites>>
    ELSE LET data == LoadData[1]
             environments == load_environments(data)
             path == DerivedPath(name)
         IN  IF AlreadyExists(environments, name)
             THEN /\ last' = [op |-> "create", name |-> name,
                              result |-> "EnvironmentExistsError"]
                  /\ UNCHANGED <<setup, tasks, pending, route, json, backups, now, fs, overwrites>>
             ELSE LET environment == [name |-> name, path |-> path,
                                      admin |-> admin, color |-> color]
                      saved == save_json(json, backups, now,
                                   set_environments(data, AddEnvironment(environments, environment)))
                  IN  /\ Len(environments) < MaxEnvs
                      /\ overwrites < MaxSaves
                      /\ fs' = ProvisionFolder(fs, path, templateOk)
                      /\ json' = saved.json
                      /\ backups' = saved.backups
                      /\ overwrites' = overwrites + Len(saved.backup_path)
                      /\ last' = [op |-> "create", name |-> name, result |-> "ok",
                                  environment |-> environment,
                                  backup_path |-> saved.backup_path,
                                  gam_exe_present |-> fs'[path].gam_exe]
                      /\ UNCHANGED <<setup, tasks, pending, route, now>>

\* a slip: any record is taken for the one named
NamedIndicesAny(environments, name) == 1..Len(environments)

\* the records delete_environment takes for the one named: env.name == name
NamedIndices(environments, name) ==
    {i \in 1..Len(environments) : environments[i].name = name}

\* LauncherService.delete_environment; rmOk: shutil.rmtree raised no OSError
delete_environment(name, delete_folder, rmOk) ==
    IF LoadData = <<>>
    THEN /\ last' = [op |-> "delete", name |-> name, result |-> "LauncherServiceError"]
         /\ UNCHANGED <<setup, tasks, pending, route, json, backups, now, fs, overwrites>>
    ELSE LET data == LoadData[1]
             environments == load_environments(data)
             hits == NamedIndices(environments, name)
         IN  IF hits = {}
             THEN /\ last' = [op |-> "delete", name |-> name,
                              delete_folder |-> delete_folder,
                              result |-> "EnvironmentNotFoundError"]
                  /\ UNCHANGED <<setup, tasks, pending, route, json, backups, now, fs, overwrites>>
             ELSE LET target == environments[CHOOSE i \in hits : \A j \in hits : i <= j]
                      kept == SelectSeq(environments, LAMBDA env : env.name # target.name)
                      saved == save_json(json, backups, now, set_environments(data, kept))
                      folder == FsPath(target.path)
                      removed == delete_folder /\ folder \in DOMAIN fs /\ rmOk
                  IN  /\ overwrites < MaxSaves
                      /\ json' = saved.json
                      /\ backups' = saved.backups
                      /\ overwrites' = overwrites + Len(saved.backup_path)
                      /\ fs' = IF removed THEN rmtree(fs, folder) ELSE fs
                      /\ last' = [op |-> "delete", name |-> name, result |-> "ok",
                                  delete_folder |-> delete_folder,
                                  backup_path |-> saved.backup_path,
                                  folder_deleted |-> removed]
                      /\ UNCHANGED <<setup, tasks, pending, route, now>>

\* a slip: the first issue alone is applied
ApplyIssuesFirstOnly(environments, issues) ==
    [i \in 1..Len(environments) |->
        IF issues # <<>> /\ i = issues[1].index + 1
        THEN [environments[i] EXCEPT !.path = issues[1].clean]
        ELSE environments[i]]

\* the records of validate_paths after the issues are applied
ApplyIssues(environments, issues) ==
    LET fixed == {issues[k].index + 1 : k \in 1..Len(issues)}
    IN  [i \in 1..Len(environments) |->
            IF i \in fixed
            THEN [environments[i] EXCEPT !.path = normalise_path(environments[i].path)]
            ELSE environments[i]]

\* LauncherService.validate_paths
validate_paths(apply_changes) ==
    IF LoadData = <<>>
    THEN /\ last' = [op |-> "validate", result |-> "LauncherServiceError"]
         /\ UNCHANGED <<setup, tasks, pending, route, json, backups, now, fs, overwrites>>
    ELSE LET data == LoadData[1]
             environments == load_environments(data)
             issues == sanitise_environment_paths(environments)
         IN  IF apply_changes /\ issues # <<>>
             THEN LET saved == save_json(json, backups, now,
                          set_environments(data, ApplyIssues(environments, issues)))
                  IN  /\ overwrites < MaxSaves
                      /\ json' = saved.json
                      /\ backups' = saved.backups
                      /\ overwrites' = overwrites + Len(saved.backup_path)
                      /\ last' = [op |-> "validate", result |-> "ok", issues |-> issues,
                                  apply_changes |-> apply_changes,
                                  applied |-> TRUE, backup_path |-> saved.backup_path]
                      /\ UNCHANGED <<setup, tasks, pending, route, now, fs>>
             ELSE /\ last' = [op |-> "validate", result |-> "ok", issues |-> issues,
                              apply_changes |-> apply_changes,
                              applied |-> FALSE, backup_path |-> <<>>]
                  /\ UNCHANGED <<setup, tasks, pending, route, json, backups, now, fs, overwrites>>

----------------------------------------------------------------------------
(* Sessions and command routing *)

\* services.GAM_COMMANDS
GAM_COMMANDS ==
    { <<"a", "d", "m", "i", "n", "r", "o", "l", "e">>,
      <<"a", "l", "e", "r", "t">>,
      <<"a", "l", "i", "a", "s">>,
      <<"b", "r", "o", "w", "s", "e", "r">>,
      <<"b", "u", "i", "l", "d", "i", "n", "g">>,
      <<"c", "h", "a", "t", "e", "v", "e", "n", "t">>,
      <<"c", "h", "a", "t", "m", "e", "m", "b", "e", "r">>,
      <<"c", "h", "a", "t", "m", "e", "s", "s", "a", "g", "e">>,
      <<"c", "h", "a", "t", "s", "p", "a", "c", "e">>,
      <<"c", "h", "r", "o", "m", "e", "a", "p", "p">>,
      <<"c", "h", "r", "o", "m", "e", "p", "r", "o", "f", "i", "l", "e">>,
      <<"c", "h", "r", "o", "m", "e", "p", "r", "o", "f", "i", "l", "e", "c", "o", "m", "m", "a", "n", "d">>,
      <<"c", "h", "r", "o", "m", "e", "s", "c", "h", "e", "m", "a">>,
      <<"c", "i", "g", "r", "o", "u", "p">>,
      <<"c", "i", "g", "r", "o", "u", "p", "m", "e", "m", "b", "e", "r", "s">>,
      <<"c", "o", "n", "t", "a", "c", "t">>,
      <<"c", "o", "u", "r", "s", "e">>,
      <<"c", "o", "u", "r", "s", "e", "s">>,
      <<"c", "r", "o", "s">>,
      <<"c", "r", "o", "s", "t", "e", "l", "e", "m", "e", "t", "r", "y">>,
      <<"c", "u", "r", "r", "e", "n", "t", "p", "r", "o", "j", "e", "c", "t", "i", "d">>,
      <<"c", "u", "s", "t", "o", "m", "e", "r">>,
      <<"d", "a", "t", "a", "t", "r", "a", "n", "s", "f", "e", "r">>,
      <<"d", "e", "v", "i", "c", "e">>,
      <<"d", "e", "v", "i", "c", "e", "u", "s", "e", "r">>,
      <<"d", "e", "v", "i", "c", "e", "u", "s", "e", "r", "s", "t", "a", "t", "e">>,
      <<"d", "o", "m", "a", "i", "n">>,
      <<"d", "o", "m", "a", "i", "n", "a", "l", "i", "a", "s">>,
      <<"d", "o", "m", "a", "i", "n", "c", "o", "n", "t", "a", "c", "t">>,
      <<"d", "r", "i", "v", "e", "f", "i", "l", "e", "a", "c", "l">>,
      <<"d", "r", "i", "v", "e", "l", "a", "b", "e", "l">>,
      <<"g", "r", "o", "u", "p">>,
      <<"g", "r", "o", "u", "p", "m", "e", "m", "b", "e", "r", "s">>,
      <<"i", "n", "b", "o", "u", "n", "d", "s", "s", "o", "a", "s", "s", "i", "g", "n", "m", "e", "n", "t">>,
      <<"i", "n", "b", "o", "u", "n", "d", "s", "s", "o", "c", "r", "e", "d", "e", "n", "t", "i", "a", "l">>,
      <<"i", "n", "b", "o", "u", "n", "d", "s", "s", "o", "p", "r", "o", "f", "i", "l", "e">>,
      <<"i", "n", "s", "t", "a", "n", "c", "e">>,
      <<"m", "o", "b", "i", "l", "e">>,
      <<"o", "r", "g">>,
      <<"o", "r", "g", "s">>,
      <<"p", "e", "o", "p", "l", "e", "c", "o", "n", "t", "a", "c", "t">>,
      <<"p", "e", "o", "p", "l", "e", "p", "r", "o", "f", "i", "l", "e">>,
      <<"p", "o", "l", "i", "c", "y">>,
      <<"p", "r", "i", "n", "t", "e", "r">>,
      <<"r", "e", "s", "o", "l", "d", "c", "u", "s", "t", "o", "m", "e", "r">>,
      <<"r", "e", "s", "o", "l", "d", "s", "u", "b", "s", "c", "r", "i", "p", "t", "i", "o", "n">>,
      <<"r", "e", "s", "o", "u", "r", "c", "e">>,
      <<"r", "e", "s", "o", "u", "r", "c", "e", "s">>,
      <<"s", "c", "h", "e", "m", "a">>,
      <<"s", "h", "a", "r", "e", "d", "d", "r", "i", "v", "e">>,
      <<"s", "i", "t", "e">>,
      <<"s", "i", "t", "e", "a", "c", "l">>,
      <<"u", "s", "e", "r">>,
      <<"u", "s", "e", "r", "i", "n", "v", "i", "t", "a", "t", "i", "o", "n">>,
      <<"u", "s", "e", "r", "s">>,
      <<"v", "a", "u", "l", "t", "e", "x", "p", "o", "r", "t">>,
      <<"v", "a", "u", "l", "t", "h", "o", "l", "d">>,
      <<"v", "a", "u", "l", "t", "m", "a", "t", "t", "e", "r">>,
      <<"v", "a", "u", "l", "t", "q", "u", "e", "r", "y">>,
      <<"v", "e", "r", "i", "f", "y">> }

Gam == <<"g", "a", "m">>

\* shlex.split in POSIX mode, character by character; st is the lexer's state:
\* "ws" between tokens, "word" in a token, "dq"/"sq" in quotes, "esc"/"dqesc"
\* after a backslash; quoted: the token met a quote.  ok = FALSE is ValueError.
RECURSIVE Lex(_, _, _, _, _, _)
Lex(s, i, st, tok, quoted, out) ==
    IF i > Len(s)
    THEN IF st \in {"dq", "sq", "esc", "dqesc"} THEN [ok |-> FALSE, args |-> <<>>]
         ELSE IF st = "word" /\ (tok # <<>> \/ quoted)
              THEN [ok |-> TRUE, args |-> Append(out, tok)]
              ELSE [ok |-> TRUE, args |-> out]
    ELSE LET c == s[i]
         IN  CASE st \in {"ws", "word"} /\ c \in Whitespace ->
                    IF st = "word" /\ (tok # <<>> \/ quoted)
                    THEN Lex(s, i + 1, "ws", <<>>, FALSE, Append(out, tok))
                    ELSE Lex(s, i + 1, "ws", <<>>, FALSE, out)
               [] st \in {"ws", "word"} /\ c = "\\" -> Lex(s, i + 1, "esc", tok, quoted, out)
               [] st \in {"ws", "word"} /\ c = "\"" -> Lex(s, i + 1, "dq", tok, TRUE, out)
               [] st \in {"ws", "word"} /\ c = "'" -> Lex(s, i + 1, "sq", tok, TRUE, out)
               [] st \in {"ws", "word"} /\ c \notin Whitespace \cup {"\\", "\"", "'"} ->
                    Lex(s, i + 1, "word", Append(tok, c), quoted, out)
               [] st = "dq" /\ c = "\"" -> Lex(s, i + 1, "word", tok, quoted, out)
               [] st = "dq" /\ c = "\\" -> Lex(s, i + 1, "dqesc", tok, quoted, out)
               [] st = "dq" /\ c \notin {"\"", "\\"} ->
                    Lex(s, i + 1, "dq", Append(tok, c), quoted, out)
               [] st = "sq" /\ c = "'" -> Lex(s, i + 1, "word", tok, quoted, out)
               [] st = "sq" /\ c # "'" -> Lex(s, i + 1, "sq", Append(tok, c), quoted, out)
               [] st = "esc" -> Lex(s, i + 1, "word", Append(tok, c), quoted, out)
               [] st = "dqesc" /\ c \in {"\"", "\\"} ->
                    Lex(s, i + 1, "dq", Append(tok, c), quoted, out)
               [] st = "dqesc" /\ c \notin {"\"", "\\"} ->
                    Lex(s, i + 1, "dq", tok \o <<"\\", c>>, quoted, out)

\* a slip: the line is cut at every blank, as raw_command.split(" ") does
SplitOnBlank(raw_command) ==
    LET cuts == {0, Len(raw_command) + 1}
                  \cup {i \in 1..Len(raw_command) : raw_command[i] = " "}
        starts == {i \in cuts : i <= Len(raw_command)}
        ordered == [k \in 1..Cardinality(starts) |->
                      CHOOSE i \in starts : Cardinality({j \in starts : j < i}) = k - 1]
    IN  [ok |-> TRUE,
         args |-> [k \in 1..Len(ordered) |->
                     SubSeq(raw_command, ordered[k] + 1,
                            (CHOOSE e \in cuts : e > ordered[k]
                                /\ \A f \in cuts : f > ordered[k] => e <= f) - 1)]]

\* shlex.split(raw_command)
shlex_split(raw_command) == Lex(raw_command, 1, "ws", <<>>, FALSE, <<>>)

\* subprocess.Popen(command, cwd=..., ...) starts the child: the working
\* directory is on disk, and so is gam.exe when it is the program to run;
\* otherwise Popen raises OSError
Popen(child, disk) ==
    /\ child.cwd \in DOMAIN disk
    /\ child.shell \/ disk[child.cwd].gam_exe

\* services.run_subprocess: the child spawned and the lines logged
run_subprocess(command, cfgdir, cwd, output) ==
    [child |-> [shell |-> FALSE, command |-> command, GAMCFGDIR |-> cfgdir, cwd |-> cwd],
     lines |-> [i \in 1..Len(output) |-> rstrip(output[i])]]

\* services.run_shell_command: the child spawned and the lines logged
run_shell_command(command, cfgdir, cwd, output) ==
    [child |-> [shell |-> TRUE, command |-> command, GAMCFGDIR |-> cfgdir, cwd |-> cwd],
     lines |-> [i \in 1..Len(output) |-> rstrip(output[i])]]

\* a slip: the first token is dropped from every tool invocation
ToolArgsRootDropped(args, command_root) == Tail(args)

\* the arguments handed to the executable: a leading "gam" is stripped, an
\* allow-listed root is kept
ToolArgs(args, command_root) == IF command_root = Gam THEN Tail(args) ELSE args

\* a slip: only the bare "gam" is turned away
RefusalBareOnly(sess, rest) ==
    IF rest = <<>>
    THEN <<[returned |-> 0, line |-> "No GAM command provided."]>>
    ELSE <<>>

\* the tool invocations run_command turns away without a spawn, with the
\* status returned and the line logged: a bare "gam", then an executable
\* that is not available; <<>> when the invocation goes on to the spawn
Refusal(sess, rest) ==
    IF rest = <<>>
    THEN <<[returned |-> 0, line |-> "No GAM command provided."]>>
    ELSE IF ~sess.gam_available
         THEN <<[returned |-> 1, line |-> "gam.exe is not available for this environment."]>>
         ELSE <<>>

\* LauncherService.run_command; output and code are what a child, if spawned,
\* prints and exits with
run_command(sess, raw_command, output, code) ==
    LET split == shlex_split(raw_command)
        args == split.args
        command_root == lower(args[1])
        use_gam == command_root = Gam \/ command_root \in GAM_COMMANDS
        rest == ToolArgs(args, command_root)
        Spawned(run) == IF Popen(run.child, fs)
                        THEN [result |-> "ok", returned |-> code,
                              children |-> <<run.child>>, sink |-> run.lines]
                        ELSE [result |-> "OSError", returned |-> -1,
                              children |-> <<>>, sink |-> <<>>]
        Quiet(returned, lines) == [result |-> "ok", returned |-> returned,
                                   children |-> <<>>, sink |-> lines]
    IN  IF ~split.ok
        THEN [result |-> "ValueError", returned |-> -1, children |-> <<>>, sink |-> <<>>]
        ELSE IF args = <<>> THEN Quiet(0, <<>>)
        ELSE IF use_gam
             THEN IF Refusal(sess, rest) # <<>>
                  THEN Quiet(Refusal(sess, rest)[1].returned, <<Refusal(sess, rest)[1].line>>)
                  ELSE Spawned(run_subprocess(<<sess.gam_exe>> \o rest,
                                              sess.gam_dir, sess.gam_path, output))
             ELSE Spawned(run_shell_command(raw_command, sess.gam_dir, sess.gam_path, output))

\* Path(normalise_path(env.path) or env.path)
ResolvedPath(env) == FsPath(Or(normalise_path(env.path), env.path))

\* a slip: the folder is not looked for before the structure is made
prepare_session_unchecked(env) ==
    LET gam_path == ResolvedPath(env)
    IN  /\ fs' = ensure_gam_structure(fs, gam_path)
        /\ session' = <<[environment |-> env,
                         gam_path |-> gam_path,
                         gam_dir |-> JoinPath(gam_path, <<".", "g", "a", "m">>),
                         gam_exe |-> JoinPath(gam_path, <<"g", "a", "m", ".", "e", "x", "e">>),
                         gam_available |-> fs'[gam_path].gam_exe]>>
        /\ last' = [op |-> "prepare", environment |-> env, result |-> "ok"]
        /\ UNCHANGED <<setup, tasks, pending, children, sink, json, backups, now, overwrites>>

\* LauncherService.prepare_session
prepare_session(env) ==
    LET gam_path == ResolvedPath(env)
    IN  IF gam_path \notin DOMAIN fs
        THEN /\ last' = [op |-> "prepare", environment |-> env,
                         result |-> "EnvironmentPathError", path |-> gam_path]
             /\ UNCHANGED <<setup, tasks, pending, route, json, backups, now, fs, overwrites>>
        ELSE /\ fs' = ensure_gam_structure(fs, gam_path)
             /\ session' = <<[environment |-> env,
                              gam_path |-> gam_path,
                              gam_dir |-> JoinPath(gam_path, <<".", "g", "a", "m">>),
                              gam_exe |-> JoinPath(gam_path, <<"g", "a", "m", ".", "e", "x", "e">>),
                              gam_available |-> fs[gam_path].gam_exe]>>
             /\ last' = [op |-> "prepare", environment |-> env, result |-> "ok"]
             /\ UNCHANGED <<setup, tasks, pending, children, sink, json, backups, now, overwrites>>

\* command lines typed by the operator
CommandSet ==
    { <<>>,
      <<" ">>,
      <<" ", "\t", " ">>,
      <<"g", "a", "m">>,
      <<"G", "A", "M", " ", "i", "n", "f", "o">>,
      <<"u", "s", "e", "r", " ", "x">>,
      <<"d", "i", "r">>,
      <<"\"", "\"">>,
      <<"\"", "a">> }

\* what a child process prints, line by line
OutputSet ==
    { <<>>,
      << <<"a", " ", "\n">>, <<"\n">> >> }

\* a call of run_command with the session held
RunCommand(raw_command, output, code) ==
    LET done == run_command(session[1], raw_command, output, code)
    IN  /\ session # <<>>
        /\ children' = done.children
        /\ sink' = done.sink
        /\ last' = [op |-> "run", command |-> raw_command,
                    result |-> done.result, returned |-> done.returned]
        /\ UNCHANGED <<setup, tasks, pending, session, json, backups, now, fs, overwrites>>

----------------------------------------------------------------------------
(* The surroundings of the service *)

\* the clock that datetime.now() reads moves on by a second
Tick ==
    /\ now < MaxTime
    /\ now' = now + 1
    /\ last' = [op |-> "tick"]
    /\ UNCHANGED <<setup, tasks, pending, route, json, backups, fs, overwrites>>

\* the tool, run in an environment, leaves oauth2.txt in its .gam directory
TokenWritten(path) ==
    /\ path \in DOMAIN fs
    /\ fs[path].gam_dir
    /\ ~fs[path].tokens
    /\ fs' = [fs EXCEPT ![path].tokens = TRUE]
    /\ last' = [op |-> "token"]
    /\ UNCHANGED <<setup, tasks, pending, route, json, backups, now, overwrites>>

\* an environment folder is removed from outside the service
FolderRemoved(path) ==
    /\ path \in DOMAIN fs
    /\ fs' = rmtree(fs, path)
    /\ last' = [op |-> "rmdir"]
    /\ UNCHANGED <<setup, tasks, pending, route, json, backups, now, overwrites>>

----------------------------------------------------------------------------
(* Specification: the service on a fresh registry *)

\* LauncherService.__init__ on an empty configuration root
Init ==
    /\ platform \in {"posix", "windows"}
    /\ templateOk \in BOOLEAN
    /\ json = ensure_json_exists(<<>>)
    /\ backups = <<>>
    /\ now = 0
    /\ fs = <<>>
    /\ session = <<>>
    /\ children = <<>>
    /\ sink = <<>>
    /\ pending = [w \in Workers |-> <<>>]
    /\ tasks = <<>>
    /\ overwrites = 0
    /\ last = [op |-> "init"]

CreateStep == \E name \in NameSet, attr \in AttrSet :
                  create_environment(name, attr[1], attr[2])

DeleteStep == \E name \in NameSet, delete_folder \in BOOLEAN, rmOk \in BOOLEAN :
                  delete_environment(name, delete_folder, rmOk)

ValidateStep == \E apply_changes \in BOOLEAN : validate_paths(apply_changes)

TokenStep == \E path \in DOMAIN fs : TokenWritten(path)

Next == CreateStep \/ DeleteStep \/ ValidateStep \/ Tick \/ TokenStep

Spec == Init /\ [][Next]_vars

----------------------------------------------------------------------------
(* Specification: the registry store on documents found on disk *)

\* (Admin, Color) values of a stored record: null, empty or a string
StoredAttrSet == { <<None, None>>, <<<<>>, <<"B">>>>, <<<<"x">>, <<>>>> }

\* records in the documented key style, {"Name", "Path", "Admin", "Color"}
DocumentedRecords(name) ==
    { [Name |-> name, Path |-> DerivedPath(name), Admin |-> attr[1], Color |-> attr[2]] :
        attr \in StoredAttrSet }

\* records as asdict writes them
WrittenRecords(name) ==
    { asdict([name |-> name, path |-> DerivedPath(name), admin |-> attr[1], color |-> attr[2]]) :
        attr \in StoredAttrSet }

\* registry documents that may lie at json_path when the service starts
FoundDocuments ==
    LET first == DocumentedRecords(<<"A", "B">>) \cup WrittenRecords(<<"A", "B">>)
        second == [name |-> <<"!">>, path |-> DerivedPath(<<"!">>),
                   admin |-> None, color |-> None]
    IN  {[Environments |-> <<>>]}
          \cup {[Environments |-> <<r>>] : r \in first}
          \cup {[Environments |-> <<r, second>>] : r \in first}
          \cup {[Environments |-> <<>>, Version |-> <<"1">>],
                [Environments |-> <<second>>, Version |-> <<"1">>]}

\* documents handed to save_json by a direct caller
SavedDocuments ==
    { [Environments |-> <<>>],
      [Environments |-> <<[name |-> <<"A", "B">>, path |-> DerivedPath(<<"A", "B">>),
                           admin |-> None, color |-> None]>>] }

\* a direct call of json_store.save_json(json_path, backup_root, data)
SaveJsonCall(data) ==
    LET saved == save_json(json, backups, now, data)
    IN  /\ overwrites < MaxSaves
        /\ json' = saved.json
        /\ backups' = saved.backups
        /\ overwrites' = overwrites + Len(saved.backup_path)
        /\ last' = [op |-> "save_json", result |-> "ok", backup_path |-> saved.backup_path]
        /\ UNCHANGED <<setup, tasks, pending, route, now, fs>>

\* a call of json_store.ensure_json_exists(json_path), as LauncherService.__init__ makes
EnsureJsonCall ==
    /\ json' = ensure_json_exists(json)
    /\ last' = [op |-> "ensure_json_exists"]
    /\ UNCHANGED <<setup, tasks, pending, route, backups, now, fs, overwrites>>

InitStore ==
    /\ platform \in {"posix", "windows"}
    /\ templateOk = TRUE
    /\ json \in {<<>>} \cup {<<d>> : d \in FoundDocuments}
    /\ backups = <<>>
    /\ now = 0
    /\ fs = <<>>
    /\ session = <<>>
    /\ children = <<>>
    /\ sink = <<>>
    /\ pending = [w \in Workers |-> <<>>]
    /\ tasks = <<>>
    /\ overwrites = 0
    /\ last = [op |-> "init"]

SaveStep == \E data \in SavedDocuments : SaveJsonCall(data)

NextStore == CreateStep \/ DeleteStep \/ ValidateStep \/ Tick \/ SaveStep \/ EnsureJsonCall

SpecStore == InitStore /\ [][NextStore]_vars

----------------------------------------------------------------------------
(* Specification: path validation on registries holding any path string *)

PathAlphabet == {" ", "\"", "/", "a"}

\* every string over PathAlphabet of at most MaxPathLen characters
PathStrings == UNION {[1..n -> PathAlphabet] : n \in 0..MaxPathLen}

InitPaths ==
    /\ platform \in {"posix", "windows"}
    /\ templateOk = TRUE
    /\ \E p \in PathStrings :
          json = <<[Environments |->
                      <<[name |-> <<"A", "B">>, path |-> DerivedPath(<<"A", "B">>),
                         admin |-> <<"x">>, color |-> None],
                        [name |-> <<"!">>, path |-> p, admin |-> None, color |-> None]>>]>>
    /\ backups = <<>>
    /\ now = 0
    /\ fs = <<>>
    /\ session = <<>>
    /\ children = <<>>
    /\ sink = <<>>
    /\ pending = [w \in Workers |-> <<>>]
    /\ tasks = <<>>
    /\ overwrites = 0
    /\ last = [op |-> "init"]

NextPaths == ValidateStep \/ Tick

SpecPaths == InitPaths /\ [][NextPaths]_vars

----------------------------------------------------------------------------
(* Specification: sessions and commands on the environments created *)

PrepareStep == \E i \in 1..Len(list_environments) : prepare_session(list_environments[i])

RunStep == \E raw_command \in CommandSet, output \in OutputSet, code \in {0, 1} :
               RunCommand(raw_command, output, code)

RemoveStep == \E path \in DOMAIN fs : FolderRemoved(path)

NextRoute == CreateStep \/ RemoveStep \/ TokenStep \/ PrepareStep \/ RunStep

SpecRoute == Init /\ [][NextRoute]_vars

----------------------------------------------------------------------------
(* Specification: registry calls of several callers, interleaved.  A call    *)
(* reads the document (load_json) in one step and writes it (save_json) in   *)
(* a later one; nothing in the code keeps other calls out in between.        *)

InFlight == Cardinality({w \in Workers : pending[w] # <<>>})

\* create_environment up to its save_json: load, duplicate test, folder
BeginCreate(w, name, admin, color) ==
    IF LoadData = <<>> \/ AlreadyExists(load_environments(LoadData[1]), name)
    THEN pending[w] = <<>> /\ create_environment(name, admin, color)
    ELSE LET data == LoadData[1]
             environments == load_environments(data)
             environment == [name |-> name, path |-> DerivedPath(name),
                             admin |-> admin, color |-> color]
         IN  /\ pending[w] = <<>>
             /\ Len(environments) < MaxEnvs
             /\ overwrites + InFlight < MaxSaves
             /\ fs' = ProvisionFolder(fs, DerivedPath(name), templateOk)
             /\ pending' = [pending EXCEPT ![w] =
                   <<[op |-> "create", name |-> name, environment |-> environment,
                      data |-> set_environments(data, AddEnvironment(environments, environment))]>>]
             /\ UNCHANGED <<setup, tasks, route, json, backups, now, overwrites, last>>

\* delete_environment up to its save_json: load, look the name up
BeginDelete(w, name, delete_folder) ==
    LET hits == NamedIndices(list_environments, name)
    IN  IF LoadData = <<>> \/ hits = {}
        THEN pending[w] = <<>> /\ delete_environment(name, delete_folder, TRUE)
        ELSE LET data == LoadData[1]
                 environments == load_environments(data)
                 target == environments[CHOOSE i \in hits : \A j \in hits : i <= j]
                 kept == SelectSeq(environments, LAMBDA env : env.name # target.name)
             IN  /\ pending[w] = <<>>
                 /\ overwrites + InFlight < MaxSaves
                 /\ pending' = [pending EXCEPT ![w] =
                       <<[op |-> "delete", name |-> name, target |-> target,
                          delete_folder |-> delete_folder,
                          data |-> set_environments(data, kept)]>>]
                 /\ UNCHANGED <<setup, tasks, route, json, backups, now, fs, overwrites, last>>

\* validate_paths(apply_changes=True) up to its save_json
BeginValidate(w) ==
    LET issues == sanitise_environment_paths(list_environments)
    IN  IF LoadData = <<>> \/ issues = <<>>
        THEN pending[w] = <<>> /\ validate_paths(TRUE)
        ELSE /\ pending[w] = <<>>
             /\ overwrites + InFlight < MaxSaves
             /\ pending' = [pending EXCEPT ![w] =
                   <<[op |-> "validate", issues |-> issues,
                      data |-> set_environments(LoadData[1],
                                  ApplyIssues(list_environments, issues))]>>]
             /\ UNCHANGED <<setup, tasks, route, json, backups, now, fs, overwrites, last>>

\* a slip: a create reads the document again and adds its record to it
WrittenAfterReload(job) ==
    IF job.op = "create" /\ LoadData # <<>>
    THEN set_environments(LoadData[1],
             AddEnvironment(load_environments(LoadData[1]), job.environment))
    ELSE job.data

\* the document a call hands to save_json: the one it loaded, with its change
Written(job) == job.data

\* the rest of the call: save_json, then what follows it, and the return
Finish(w, rmOk) ==
    /\ pending[w] # <<>>
    /\ LET job == pending[w][1]
           saved == save_json(json, backups, now, Written(job))
           removed == /\ job.op = "delete"
                      /\ job.delete_folder
                      /\ FsPath(job.target.path) \in DOMAIN fs
                      /\ rmOk
       IN  /\ json' = saved.json
           /\ backups' = saved.backups
           /\ overwrites' = overwrites + Len(saved.backup_path)
           /\ fs' = IF removed THEN rmtree(fs, FsPath(job.target.path)) ELSE fs
           /\ last' = CASE job.op = "create" ->
                             [op |-> "create", name |-> job.name, result |-> "ok",
                              environment |-> job.environment,
                              backup_path |-> saved.backup_path,
                              gam_exe_present |->
                                  /\ job.environment.path \in DOMAIN fs
                                  /\ fs[job.environment.path].gam_exe]
                        [] job.op = "delete" ->
                             [op |-> "delete", name |-> job.name, result |-> "ok",
                              delete_folder |-> job.delete_folder,
                              backup_path |-> saved.backup_path, folder_deleted |-> removed]
                        [] job.op = "validate" ->
                             [op |-> "validate", result |-> "ok", issues |-> job.issues,
                              apply_changes |-> TRUE,
                              applied |-> TRUE, backup_path |-> saved.backup_path]
    /\ pending' = [pending EXCEPT ![w] = <<>>]
    /\ UNCHANGED <<setup, tasks, route, now>>

ConcCreate == \E w \in Workers, name \in NameSet, attr \in AttrSet :
                  BeginCreate(w, name, attr[1], attr[2])

ConcDelete == \E w \in Workers, name \in NameSet, delete_folder \in BOOLEAN :
                  BeginDelete(w, name, delete_folder)

ConcValidate == \E w \in Workers : BeginValidate(w)

ConcFinish == \E w \in Workers, rmOk \in BOOLEAN : Finish(w, rmOk)

NextConc == ConcCreate \/ ConcDelete \/ ConcValidate \/ ConcFinish

SpecConc == Init /\ [][NextConc]_vars

----------------------------------------------------------------------------
(* The task manager of the web front end (webapp.py).  A task's worker is   *)
(* a thread; pc is where it stands in _run_task: "resolve", "prepare",      *)
(* "route", "stream" (reading the child's output), "ended" (the thread      *)
(* returned) or "raised" (an exception no except clause names ended it).    *)

\* CommandTask(task_id, environment, command, status="running"), with the
\* worker's locals
CommandTask(environment, command) ==
    [environment |-> environment, command |-> command, status |-> "running",
     output |-> <<>>, error |-> <<>>,
     pc |-> "resolve", env |-> <<>>, session |-> <<>>, child |-> <<>>,
     produced |-> <<>>, unread |-> <<>>]

\* a slip: the new task takes the place of the tasks held
start_replacing(ts, environment, command) == <<CommandTask(environment, command)>>

\* TaskManager.start
start(ts, environment, command) == Append(ts, CommandTask(environment, command))

\* environment names and command lines posted to /launch (stripped, not empty)
TaskEnvironmentSet == { <<"a", "b">>, <<"z">> }

TaskCommandSet ==
    { <<"u", "s", "e", "r", " ", "x">>,
      <<"d", "i", "r">>,
      <<"\"", "a">> }

\* the /launch handler: _get_service builds a LauncherService, then start
launch(environment, command) ==
    /\ Len(tasks) < MaxTasks
    /\ json' = ensure_json_exists(json)
    /\ tasks' = start(tasks, environment, command)
    /\ last' = [op |-> "launch"]
    /\ UNCHANGED <<setup, pending, route, backups, now, fs, overwrites>>

\* a slip: the status is set and the message is not kept
FailedSilently(task, message) == [task EXCEPT !.status = "failed", !.pc = "ended"]

\* the except clauses of _run_task: status "failed", error str(exc)
Failed(task, message) ==
    [task EXCEPT !.status = "failed", !.error = <<message>>, !.pc = "ended"]

\* LauncherService.get_environment_by_name: the first record whose name is the
\* one asked for, letter case aside; <<>> stands for EnvironmentNotFoundError
get_environment_by_name(environments, name) ==
    LET hits == {i \in 1..Len(environments) : lower(environments[i].name) = lower(name)}
    IN  IF hits = {} THEN <<>>
        ELSE <<environments[CHOOSE i \in hits : \A j \in hits : i <= j]>>

\* _run_task: env = service.get_environment_by_name(task.environment)
GetEnvironment(t) ==
    /\ tasks[t].pc = "resolve"
    /\ LET task == tasks[t]
           found == get_environment_by_name(list_environments, task.environment)
       IN  tasks' = [tasks EXCEPT ![t] =
              IF LoadData = <<>>
              THEN Failed(task, "Error loading JSON configuration.")
              ELSE IF found = <<>>
                   THEN Failed(task, "Environment not found.")
                   ELSE [task EXCEPT !.env = found, !.pc = "prepare"]]
    /\ last' = [op |-> "get_environment", task |-> t]
    /\ UNCHANGED <<setup, pending, route, json, backups, now, fs, overwrites>>

\* the EnvironmentSession prepare_session returns for a folder on disk
EnvironmentSession(env, disk) ==
    LET gam_path == ResolvedPath(env)
    IN  [environment |-> env,
         gam_path |-> gam_path,
         gam_dir |-> JoinPath(gam_path, <<".", "g", "a", "m">>),
         gam_exe |-> JoinPath(gam_path, <<"g", "a", "m", ".", "e", "x", "e">>),
         gam_available |-> disk[gam_path].gam_exe]

\* _run_task: session = service.prepare_session(env)
PrepareTask(t) ==
    /\ tasks[t].pc = "prepare"
    /\ LET task == tasks[t]
           env == task.env[1]
       IN  IF ResolvedPath(env) \notin DOMAIN fs
           THEN /\ tasks' = [tasks EXCEPT ![t] =
                                Failed(task, "Environment folder does not exist.")]
                /\ fs' = fs
           ELSE /\ fs' = ensure_gam_structure(fs, ResolvedPath(env))
                /\ tasks' = [tasks EXCEPT ![t] =
                                [task EXCEPT !.session = <<EnvironmentSession(env, fs)>>,
                                             !.pc = "route"]]
    /\ last' = [op |-> "prepare_task", task |-> t]
    /\ UNCHANGED <<setup, pending, route, json, backups, now, overwrites>>

\* _run_task: service.run_command(session, task.command, logger) up to the
\* spawn of the child; output is what the child will print, line by line
RouteTask(t, output) ==
    /\ tasks[t].pc = "route"
    /\ LET task == tasks[t]
           done == run_command(task.session[1], task.command, output, 0)
       IN  tasks' = [tasks EXCEPT ![t] =
              IF done.result # "ok"
              THEN [task EXCEPT !.pc = "raised"]
              ELSE IF done.children = <<>>
                   THEN [task EXCEPT !.output = task.output \o done.sink,
                                     !.status = "completed", !.pc = "ended"]
                   ELSE [task EXCEPT !.child = done.children,
                                     !.produced = output, !.unread = output,
                                     !.pc = "stream"]]
    /\ last' = [op |-> "route_task", task |-> t]
    /\ UNCHANGED <<setup, pending, route, json, backups, now, fs, overwrites>>

\* a slip: the line is put before the lines already logged
InfoFirst(output, line) == <<rstrip(line)>> \o output

\* logger.info(line.rstrip()) with TaskLogger.info: task.output.append(message)
Info(output, line) == Append(output, rstrip(line))

\* for line in process.stdout: one line read and logged
StreamLine(t) ==
    /\ tasks[t].pc = "stream"
    /\ tasks[t].unread # <<>>
    /\ tasks' = [tasks EXCEPT ![t] =
                    [@ EXCEPT !.output = Info(@, Head(tasks[t].unread)),
                              !.unread = Tail(@)]]
    /\ last' = [op |-> "stream", task |-> t]
    /\ UNCHANGED <<setup, pending, route, json, backups, now, fs, overwrites>>

\* process.wait() after the last line, then task.status = "completed"
WaitTask(t) ==
    /\ tasks[t].pc = "stream"
    /\ tasks[t].unread = <<>>
    /\ tasks' = [tasks EXCEPT ![t] = [@ EXCEPT !.status = "completed", !.pc = "ended"]]
    /\ last' = [op |-> "wait", task |-> t]
    /\ UNCHANGED <<setup, pending, route, json, backups, now, fs, overwrites>>

\* the registry file is removed or made unreadable from outside the service
RegistryLost ==
    /\ json # <<>>
    /\ json' = <<>>
    /\ last' = [op |-> "registry_lost"]
    /\ UNCHANGED <<setup, pending, tasks, route, backups, now, fs, overwrites>>

\* TaskManager.list_tasks: a copy of the values of the task map
list_tasks ==
    /\ last' = [op |-> "list_tasks", returned |-> Len(tasks)]
    /\ UNCHANGED <<setup, pending, tasks, route, json, backups, now, fs, overwrites>>

LaunchStep == \E environment \in TaskEnvironmentSet, command \in TaskCommandSet :
                  launch(environment, command)

GetEnvironmentStep == \E t \in 1..Len(tasks) : GetEnvironment(t)

PrepareTaskStep == \E t \in 1..Len(tasks) : PrepareTask(t)

RouteTaskStep == \E t \in 1..Len(tasks), output \in OutputSet : RouteTask(t, output)

StreamStep == \E t \in 1..Len(tasks) : StreamLine(t)

WaitStep == \E t \in 1..Len(tasks) : WaitTask(t)

\* the operator registers the environment the tasks are launched for
RegisterStep == create_environment(<<"A", "B">>, None, None)

NextTasks ==
    \/ RegisterStep \/ RemoveStep \/ RegistryLost
    \/ LaunchStep \/ list_tasks \/ GetEnvironmentStep \/ PrepareTaskStep
    \/ RouteTaskStep \/ StreamStep \/ WaitStep

SpecTasks == Init /\ [][NextTasks]_vars

----------------------------------------------------------------------------
(* Decoding on documents of any content.  A JSON value carries its type:    *)
(* [t |-> "null"], [t |-> "num", digits], [t |-> "str", chars],             *)
(* [t |-> "list", items] with items a sequence of values, [t |-> "obj",     *)
(* members] with members a function from keys to values.  A file that       *)
(* cannot be read or parsed has t "unreadable" or "garbage".                *)

JNull == [t |-> "null"]

JNum(digits) == [t |-> "num", digits |-> digits]

JStr(s) == [t |-> "str", chars |-> s]

JList(items) == [t |-> "list", items |-> items]

\* an object with no member
NoMembers == [k \in {} |-> JNull]

JObj(members) == [t |-> "obj", members |-> members]

\* dict.get(key) on a decoded object: None (JSON null) when the key is missing
JGet(object, key) ==
    IF key \in DOMAIN object.members THEN object.members[key] ELSE JNull

\* the truth value Python gives a decoded value
JTruthy(value) ==
    CASE value.t = "null" -> FALSE
      [] value.t = "num"  -> value.digits # <<"0">>
      [] value.t = "str"  -> value.chars # <<>>
      [] value.t = "list" -> value.items # <<>>
      [] value.t = "obj"  -> DOMAIN value.members # {}

\* Python's  a or b  on decoded values
JOr(a, b) == IF JTruthy(a) THEN a ELSE b

\* json_store.load_json on a file of any content: outcome "None" is the load
\* failure, "AttributeError" the exception content.get raises on a value
\* that is not an object
load_json_any(text) ==
    IF text.t \in {"unreadable", "garbage"} THEN [outcome |-> "None"]
    ELSE IF text.t # "obj" THEN [outcome |-> "AttributeError"]
    ELSE LET environments == JGet(text, "Environments")
             coerced == CASE environments.t = "null" -> JList(<<>>)
                          [] environments.t = "obj"  -> JList(<<environments>>)
                          [] environments.t = "str"  -> JList(<<>>)
                          [] environments.t = "list" -> environments
                          [] environments.t = "num"  -> JList(<<>>)
         IN  [outcome |-> "ok",
              content |-> JObj([k \in DOMAIN text.members \cup {"Environments"} |->
                                  IF k = "Environments" THEN coerced ELSE text.members[k]])]

\* str(value) of a decoded string or number
JText(value) == IF value.t = "str" THEN value.chars ELSE value.digits

\* Environment.from_dict on a decoded value: item.get raises AttributeError on
\* a value that is not an object
from_dict_any(item) ==
    IF item.t # "obj" THEN [outcome |-> "AttributeError"]
    ELSE [outcome |-> "ok",
          name  |-> JText(JOr(JOr(JGet(item, "Name"), JGet(item, "name")), JStr(<<>>))),
          path  |-> JText(JOr(JOr(JGet(item, "Path"), JGet(item, "path")), JStr(<<>>))),
          admin |-> JOr(JGet(item, "Admin"), JGet(item, "admin")),
          color |-> JOr(JGet(item, "Color"), JGet(item, "color"))]

\* environment.load_environments on a decoded document
load_environments_any(data) ==
    LET environments == JOr(JGet(data, "Environments"), JList(<<>>)).items
        decoded == [i \in 1..Len(environments) |-> from_dict_any(environments[i])]
    IN  IF \E i \in 1..Len(decoded) : decoded[i].outcome # "ok"
        THEN [outcome |-> "AttributeError"]
        ELSE [outcome |-> "ok", environments |-> decoded]

\* elements an Environments array may hold
ElementSet ==
    { JNum(<<"5">>),
      JStr(<<"x">>),
      JObj(NoMembers),
      JObj([name |-> JStr(<<"A", "B">>), path |-> JStr(<<"/", "r">>)]),
      JObj([Name |-> JStr(<<"A", "B">>), Admin |-> JStr(<<"x">>)]) }

\* values the Environments key may have
EnvironmentsSet ==
    {JNull, JNum(<<"5">>), JStr(<<"x">>), JObj([name |-> JStr(<<"A", "B">>)])}
      \cup {JList(items) : items \in UNION {[1..n -> ElementSet] : n \in 0..MaxElements}}

\* the content of the file at json_path
TextSet ==
    {[t |-> "unreadable"], [t |-> "garbage"],
     JNull, JNum(<<"5">>), JStr(<<"x">>), JList(<<>>),
     JObj(NoMembers), JObj([Version |-> JStr(<<"1">>)])}
      \cup {JObj([Environments |-> e]) : e \in EnvironmentsSet}

\* a call of load_json
LoadJsonCall(text) ==
    /\ last' = [op |-> "load_json", text |-> text, result |-> load_json_any(text)]
    /\ UNCHANGED <<setup, tasks, pending, route, json, backups, now, fs, overwrites>>

\* a call of load_environments on a document load_json returned
LoadEnvironmentsCall(text) ==
    /\ load_json_any(text).outcome = "ok"
    /\ last' = [op |-> "load_environments", data |-> load_json_any(text).content,
                result |-> load_environments_any(load_json_any(text).content)]
    /\ UNCHANGED <<setup, tasks, pending, route, json, backups, now, fs, overwrites>>

\* a call of normalise_path
NormaliseCall(path_value) ==
    /\ last' = [op |-> "normalise_path", path_value |-> path_value,
                result |-> normalise_path(path_value)]
    /\ UNCHANGED <<setup, tasks, pending, route, json, backups, now, fs, overwrites>>

LoadJsonStep == \E text \in TextSet : LoadJsonCall(text)

LoadEnvironmentsStep == \E text \in TextSet : LoadEnvironmentsCall(text)

NormaliseStep == \E path_value \in PathStrings \cup {None} : NormaliseCall(path_value)

NextDecode == LoadJsonStep \/ LoadEnvironmentsStep \/ NormaliseStep

SpecDecode == Init /\ [][NextDecode]_vars

----------------------------------------------------------------------------
(* Specification: lookup and deletion by names that differ in letter case *)

LookupNameSet == { <<"A", "B">>, <<"a", "b">> }

\* a call of LauncherService.get_environment_by_name(name)
GetEnvironmentCall(name) ==
    /\ last' = IF LoadData = <<>>
               THEN [op |-> "lookup", name |-> name, result |-> "LauncherServiceError"]
               ELSE IF get_environment_by_name(list_environments, name) = <<>>
               THEN [op |-> "lookup", name |-> name, result |-> "EnvironmentNotFoundError"]
               ELSE [op |-> "lookup", name |-> name, result |-> "ok",
                     environment |-> get_environment_by_name(list_environments, name)[1]]
    /\ UNCHANGED <<setup, tasks, pending, route, json, backups, now, fs, overwrites>>

CreateNamedStep == \E name \in LookupNameSet, attr \in AttrSet :
                       create_environment(name, attr[1], attr[2])

DeleteNamedStep == \E name \in LookupNameSet, delete_folder \in BOOLEAN :
                       delete_environment(name, delete_folder, TRUE)

LookupStep == \E name \in LookupNameSet : GetEnvironmentCall(name)

NextLookup == CreateNamedStep \/ DeleteNamedStep \/ LookupStep

SpecLookup == Init /\ [][NextLookup]_vars

----------------------------------------------------------------------------
(* Claims *)

\* the records list_environments returns from the document on disk
Listed == list_environments

\* what the claims call "the precondition of a rejected create"
NameTaken(name) == \E i \in 1..Len(Listed) : Listed[i].name = name

PathTaken(name) ==
    \E i \in 1..Len(Listed) :
        normalise_path(Listed[i].path) = JoinPath(ClientsRoot, safe_folder_key(name))

\* C1: no two environment records of the persisted document have the same name.
C1_UniqueNames ==
    \A i, j \in 1..Len(Listed) : Listed[i].name = Listed[j].name => i = j

\* a caller is about to write the record of a create whose name another caller
\* registered after this one had read the document
C1_Witness ==
    \E w \in Workers :
        /\ pending[w] # <<>>
        /\ pending[w][1].op = "create"
        /\ NameTaken(pending[w][1].name)

\* C2: no two environment records have the same normalised path.
C2_UniquePaths ==
    \A i, j \in 1..Len(Listed) :
        normalise_path(Listed[i].path) = normalise_path(Listed[j].path) => i = j

\* C3: a create whose name, or whose derived path, is already registered fails
\* with EnvironmentExistsError and leaves document, backups and folders alone.
C3_RejectedCreate ==
    [][(last'.op = "create" /\ json # <<>>
            /\ (NameTaken(last'.name) \/ PathTaken(last'.name)))
        => /\ last'.result = "EnvironmentExistsError"
           /\ json' = json
           /\ backups' = backups
           /\ fs' = fs]_vars

\* a create was turned away for its folder alone, and that folder holds tokens
C3_Witness ==
    /\ last.op = "create"
    /\ last.result = "EnvironmentExistsError"
    /\ ~NameTaken(last.name)
    /\ PathTaken(last.name)
    /\ \E p \in DOMAIN fs : fs[p].tokens /\ p = JoinPath(ClientsRoot, safe_folder_key(last.name))

\* C4 as claimed: a create with a name that is not registered succeeds, and the
\* record's path is clients_root / safe_folder_key(name).
C4_Original ==
    [][(last'.op = "create" /\ json # <<>> /\ ~NameTaken(last'.name))
        => /\ last'.result = "ok"
           /\ last'.environment.path = JoinPath(ClientsRoot, safe_folder_key(last'.name))]_vars

\* C4 as amended: a create with a name that is not registered, and whose derived
\* path is no registered record's normalised path, succeeds on a loadable
\* registry, and the path of the record returned and stored is
\* clients_root / safe_folder_key(name).
C4_Amended ==
    [][(last'.op = "create" /\ json # <<>>
            /\ ~NameTaken(last'.name) /\ ~PathTaken(last'.name))
        => /\ last'.result = "ok"
           /\ last'.environment.path = JoinPath(ClientsRoot, safe_folder_key(last'.name))
           /\ json'[1]["Environments"][Len(json'[1]["Environments"])].path
                = JoinPath(ClientsRoot, safe_folder_key(last'.name))]_vars

\* a second environment was created, with a name whose key differs from the name
C4_Witness ==
    /\ last.op = "create"
    /\ last.result = "ok"
    /\ Len(Listed) = 2
    /\ safe_folder_key(last.name) # last.name

\* C5: after a successful create the list is the former list followed by one
\* new record with that name, and the new record's folder exists on disk.
C5_ListAfterCreate ==
    [][(last'.op = "create" /\ last'.result = "ok")
        => /\ Len(list_environments') = Len(list_environments) + 1
           /\ SubSeq(list_environments', 1, Len(list_environments)) = list_environments
           /\ list_environments'[Len(list_environments')].name = last'.name
           /\ list_environments'[Len(list_environments')].path \in DOMAIN fs']_vars

\* a create succeeded on a registry that already listed a record
C5_Witness ==
    /\ last.op = "create"
    /\ last.result = "ok"
    /\ Len(Listed) = 2
    /\ Listed[2].name = last.name
    /\ Listed[2].path \in DOMAIN fs

\* C7: a backup, once written, is never deleted and never changes, and there
\* are as many backups as saves that overwrote a document.
C7_BackupsImmutable ==
    [][/\ \A t \in DOMAIN backups : t \in DOMAIN backups' /\ backups'[t] = backups[t]
       /\ Cardinality(DOMAIN backups') = overwrites']_vars

\* the call recorded in l went through save_json
SaveCalled(l) ==
    \/ l.op \in {"create", "delete", "save_json"} /\ l.result = "ok"
    \/ l.op = "validate" /\ l.result = "ok" /\ l.applied

\* C6: save_json writes a backup if and only if a document existed at json_path;
\* the backup holds the document as it was before the overwrite and its path is
\* returned; otherwise nothing is backed up and null is returned.
C6_BackupIffExisted ==
    [][IF SaveCalled(last')
       THEN IF json # <<>>
            THEN /\ last'.backup_path = <<now>>
                 /\ backups' = WithKey(backups, now, json[1])
            ELSE /\ last'.backup_path = <<>>
                 /\ backups' = backups
       ELSE backups' = backups]_vars

\* save_json was called with no document on disk: it wrote one and no backup
C6_Witness ==
    /\ last.op = "save_json"
    /\ last.backup_path = <<>>
    /\ json # <<>>
    /\ backups = <<>>

\* C9: decoding a registry document and encoding it again keeps every record's
\* keys and values and the records' order (here: the records a create passes on).
C9_RoundTrip ==
    [][(last'.op = "create" /\ last'.result = "ok")
        => \A i \in 1..Len(json[1]["Environments"]) :
              json'[1]["Environments"][i] = json[1]["Environments"][i]]_vars

\* C8: validate_paths(apply_changes=True) run twice in succession reports no
\* issue the second time.
C8_ValidateIdempotent ==
    [][(/\ last.op = "validate" /\ last.result = "ok" /\ last.applied
        /\ last'.op = "validate" /\ last'.result = "ok")
        => last'.issues = <<>>]_vars

\* C10: run_command on an empty or whitespace-only command line spawns no
\* child, forwards nothing to the sink and returns 0.
C10_BlankCommand ==
    [][(last'.op = "run" /\ \A i \in 1..Len(last'.command) : last'.command[i] \in Whitespace)
        => /\ last'.result = "ok"
           /\ last'.returned = 0
           /\ children' = <<>>
           /\ sink' = <<>>]_vars

\* a whitespace-only line was routed in a session whose executable is present
C10_Witness ==
    /\ last.op = "run"
    /\ last.command # <<>>
    /\ \A i \in 1..Len(last.command) : last.command[i] \in Whitespace
    /\ session # <<>>
    /\ session[1].gam_available
    /\ children = <<>>

\* shlex.split of every command line of CommandSet
TokenTable == [raw_command \in CommandSet |-> shlex_split(raw_command)]

\* the tokens of the command line of the last run_command call
RunTokens(l) == TokenTable[l.command]

\* the child a tool invocation spawns in the session
ToolChild(sess, arguments) ==
    [shell |-> FALSE, command |-> <<sess.gam_exe>> \o arguments,
     GAMCFGDIR |-> sess.gam_dir, cwd |-> sess.gam_path]

\* the child the general shell is for the command line
ShellChild(sess, raw_command) ==
    [shell |-> TRUE, command |-> raw_command,
     GAMCFGDIR |-> sess.gam_dir, cwd |-> sess.gam_path]

IsBlank(raw_command) == \A i \in 1..Len(raw_command) : raw_command[i] \in Whitespace

IsToolRoot(token) == lower(token) = Gam \/ lower(token) \in GAM_COMMANDS

\* C11 as claimed: every command line that is not blank is dispatched: with the
\* root "gam" or an allow-listed verb and the executable available, the child
\* is the executable with the tokens (after a leading "gam") in the session
\* path; with any other root the child is the shell given the line verbatim.
C11_Original ==
    [][(last'.op = "run" /\ ~IsBlank(last'.command))
        => LET split == RunTokens(last')
               sess == session[1]
           IN  /\ split.ok
               /\ split.args # <<>>
               /\ IF IsToolRoot(split.args[1])
                  THEN sess.gam_available =>
                         children' = <<ToolChild(sess,
                                         IF lower(split.args[1]) = Gam
                                         THEN Tail(split.args) ELSE split.args)>>
                  ELSE children' = <<ShellChild(sess, last'.command)>>]_vars

\* the children after a spawn of child: none when Popen raised OSError
SpawnOf(child, l) ==
    IF Popen(child, fs)
    THEN l.result = "ok" /\ children' = <<child>>
    ELSE l.result = "OSError" /\ children' = <<>> /\ sink' = <<>>

\* C11 amended: a command line with at least one token is dispatched as claimed,
\* except that a bare "gam" spawns nothing and returns 0, and an unavailable
\* executable spawns nothing and returns 1; a line that cannot be tokenised
\* raises ValueError and spawns nothing; a child whose working directory or
\* program has left the disk is not spawned and OSError is raised.
C11_Amended ==
    [][last'.op = "run"
        => LET split == RunTokens(last')
               sess == session[1]
               arguments == IF lower(split.args[1]) = Gam
                            THEN Tail(split.args) ELSE split.args
           IN  IF ~split.ok
               THEN last'.result = "ValueError" /\ children' = <<>> /\ sink' = <<>>
               ELSE split.args # <<>> =>
                      IF ~IsToolRoot(split.args[1])
                      THEN SpawnOf(ShellChild(sess, last'.command), last')
                      ELSE IF arguments = <<>>
                           THEN children' = <<>> /\ last'.returned = 0
                           ELSE IF sess.gam_available
                                THEN SpawnOf(ToolChild(sess, arguments), last')
                                ELSE children' = <<>> /\ last'.returned = 1]_vars

\* an allow-listed verb was run with the executable present: the child is the
\* executable with the verb kept
C11_Witness ==
    /\ last.op = "run"
    /\ last.command = <<"u", "s", "e", "r", " ", "x">>
    /\ session # <<>>
    /\ session[1].gam_available
    /\ Len(children) = 1
    /\ ~children[1].shell
    /\ Len(children[1].command) = 3

\* C12: prepare_session on an environment whose resolved folder is not on disk
\* fails with EnvironmentPathError naming the resolved path, yields no session
\* and makes no directory.
C12_PrepareMissingFolder ==
    [][(last'.op = "prepare" /\ ResolvedPath(last'.environment) \notin DOMAIN fs)
        => /\ last'.result = "EnvironmentPathError"
           /\ last'.path = ResolvedPath(last'.environment)
           /\ session' = session
           /\ fs' = fs]_vars

\* a registered environment whose folder was made and has since been removed
\* was prepared
C12_Witness ==
    /\ platform = "windows"
    /\ last.op = "prepare"
    /\ last.result = "EnvironmentPathError"
    /\ \E i \in 1..Len(Listed) : Listed[i] = last.environment
    /\ last.path \notin DOMAIN fs

\* the first listed record with the name: the target of delete_environment
Target(name) == Listed[CHOOSE i \in 1..Len(Listed) :
                          /\ Listed[i].name = name
                          /\ \A j \in 1..(i - 1) : Listed[j].name # name]

\* the call of delete_environment just made found its target and saved
Deleted(l) == l.op = "delete" /\ l.result = "ok"

\* C13 as claimed: a delete of a registered environment removes its record; the
\* folder is untouched without delete_folder, and with delete_folder and the
\* folder present it is gone afterwards and folder_deleted is true.
C13_Original ==
    [][Deleted(last')
        => LET folder == FsPath(Target(last'.name).path)
           IN  /\ \A i \in 1..Len(list_environments') :
                       list_environments'[i].name # last'.name
               /\ ~last'.delete_folder => fs' = fs /\ ~last'.folder_deleted
               /\ (last'.delete_folder /\ folder \in DOMAIN fs)
                     => folder \notin DOMAIN fs' /\ last'.folder_deleted]_vars

\* C13 amended: the record is removed; the folder is untouched without
\* delete_folder; with delete_folder and the folder present, either it is gone
\* and folder_deleted is true, or its removal failed, the disk is as it was and
\* folder_deleted is false.
C13_Amended ==
    [][Deleted(last')
        => LET folder == FsPath(Target(last'.name).path)
           IN  /\ \A i \in 1..Len(list_environments') :
                       list_environments'[i].name # last'.name
               /\ ~last'.delete_folder => fs' = fs /\ ~last'.folder_deleted
               /\ last'.folder_deleted
                     => /\ last'.delete_folder
                        /\ folder \in DOMAIN fs
                        /\ folder \notin DOMAIN fs'
               /\ ~last'.folder_deleted => fs' = fs]_vars

\* an environment was deleted together with its folder, and the clients root
\* is still on disk
C13_Witness ==
    /\ Deleted(last)
    /\ last.delete_folder
    /\ last.folder_deleted
    /\ ClientsRoot \in DOMAIN fs

\* C14: a delete with a name that no registered environment has fails with
\* EnvironmentNotFoundError and leaves the registry document, the backups and
\* every folder as they were.
C14_DeleteUnknown ==
    [][(last'.op = "delete" /\ json # <<>> /\ ~NameTaken(last'.name))
        => /\ last'.result = "EnvironmentNotFoundError"
           /\ json' = json
           /\ backups' = backups
           /\ overwrites' = overwrites
           /\ fs' = fs]_vars

\* an unknown name was deleted with delete_folder while another environment
\* is registered and has its folder
C14_Witness ==
    /\ last.op = "delete"
    /\ last.result = "EnvironmentNotFoundError"
    /\ last.delete_folder
    /\ Listed # <<>>
    /\ FsPath(Listed[1].path) \in DOMAIN fs

\* C15: registry changes are read-modify-write sequences without a lock: a
\* create that returns has written the document it loaded at its start with
\* its own record added, whatever other callers saved in between.
C15_LaterWriterWins ==
    [][\A w \in Workers :
          (pending[w] # <<>> /\ pending[w][1].op = "create" /\ pending'[w] = <<>>)
            => /\ last'.op = "create" /\ last'.result = "ok"
               /\ json' = <<pending[w][1].data>>]_vars

\* two creates with different names and folder keys have both saved (the
\* later one's backup holds the earlier one's document), and the document
\* holds the later writer's record only
C15_Witness ==
    /\ last.op = "create" /\ last.result = "ok"
    /\ overwrites = MaxSaves
    /\ Len(Listed) = 1
    /\ Listed[1].name = last.name
    /\ \E t \in DOMAIN backups :
          LET lost == load_environments(backups[t])
          IN  /\ Len(lost) = 1
              /\ lost[1].name # last.name
              /\ safe_folder_key(lost[1].name) # safe_folder_key(last.name)
              /\ FsPath(lost[1].path) \in DOMAIN fs

Terminal(task) == task.status \in {"completed", "failed"}

\* C16: every task started reaches a terminal status: a task whose worker
\* thread is over, for whatever reason, is completed or failed and not left
\* "running".
C16_WorkerOverTaskTerminal ==
    \A t \in 1..Len(tasks) : tasks[t].pc \in {"ended", "raised"} => Terminal(tasks[t])

\* the worker of task t has just met what makes _run_task fail: the registry
\* does not load, no record has the name (letter case aside), or the folder
\* of the environment is not on disk
FailureMet(t) ==
    \/ /\ last'.op = "get_environment" /\ last'.task = t
       /\ \/ LoadData = <<>>
          \/ \A i \in 1..Len(Listed) : lower(Listed[i].name) # lower(tasks[t].environment)
    \/ /\ last'.op = "prepare_task" /\ last'.task = t
       /\ ResolvedPath(tasks[t].env[1]) \notin DOMAIN fs

Chomp(line) ==
    IF line # <<>> /\ line[Len(line)] = "\n" THEN SubSeq(line, 1, Len(line) - 1) ELSE line

\* the lines of the child read so far by the worker of the task
LinesRead(task) == SubSeq(task.produced, 1, Len(task.produced) - Len(task.unread))

\* C18 as claimed: the output of a task is exactly the lines its child has
\* produced and the worker has read, in order, and a completed task has read
\* them all.
C18_Original ==
    \A t \in 1..Len(tasks) :
        tasks[t].child # <<>>
          => /\ tasks[t].output = [i \in 1..Len(LinesRead(tasks[t])) |->
                                      Chomp(LinesRead(tasks[t])[i])]
             /\ tasks[t].pc = "ended" => tasks[t].unread = <<>>

\* C18 amended: the output of a task is the lines its child has produced and
\* the worker has read, each without its trailing whitespace, in order, and
\* a completed task has read them all.
C18_Amended ==
    \A t \in 1..Len(tasks) :
        tasks[t].child # <<>>
          => /\ tasks[t].output = [i \in 1..Len(LinesRead(tasks[t])) |->
                                      rstrip(LinesRead(tasks[t])[i])]
             /\ tasks[t].pc = "ended" => tasks[t].unread = <<>>

\* two tasks have a child each with two lines to print: one has completed
\* while the other has read its first line only
C18_Witness ==
    \E t, u \in 1..Len(tasks) :
        /\ tasks[t].child # <<>> /\ tasks[u].child # <<>>
        /\ tasks[t].status = "completed" /\ Len(tasks[t].output) = 2
        /\ tasks[u].status = "running" /\ Len(tasks[u].output) = 1
        /\ Len(tasks[u].unread) = 1

\* the call just made was a create, delete or validate that saved the registry
RegistrySaved(l) ==
    \/ l.op \in {"create", "delete"} /\ l.result = "ok"
    \/ l.op = "validate" /\ l.result = "ok" /\ l.applied

\* C19: every top-level key of the registry document other than Environments
\* keeps its value across a create, a delete and an applied validate, and no
\* key is added.
C19_OtherKeysKept ==
    [][RegistrySaved(last')
        => /\ DOMAIN json'[1] = DOMAIN json[1] \cup {"Environments"}
           /\ \A k \in DOMAIN json[1] \ {"Environments"} : json'[1][k] = json[1][k]]_vars

\* a document with a Version key was rewritten by the service, its records
\* changed
C19_Witness ==
    /\ RegistrySaved(last)
    /\ json # <<>>
    /\ "Version" \in DOMAIN json[1]
    /\ \E t \in DOMAIN backups :
          /\ "Version" \in DOMAIN backups[t]
          /\ backups[t]["Environments"] # json[1]["Environments"]

\* C20: a successful prepare_session leaves no OAuth token file in the
\* configuration directory of the environment.
C20_NoTokensAfterPrepare ==
    [][(last'.op = "prepare" /\ last'.result = "ok")
        => ~fs'[ResolvedPath(last'.environment)].tokens]_vars

\* the Environments value load_json is to return for the one in the file
CoercedAsClaimed(environments) ==
    CASE environments.t = "list" -> environments
      [] environments.t = "obj"  -> JList(<<environments>>)
      [] environments.t \in {"null", "str", "num"} -> JList(<<>>)

\* C21: load_json returns the load failure exactly when the file cannot be
\* read or parsed, and for every other file, whatever its top-level value,
\* a document whose Environments is a sequence; it never raises.
C21_LoadJsonTotal ==
    [][last'.op = "load_json"
        => LET text == last'.text
               result == last'.result
           IN  IF text.t \in {"unreadable", "garbage"}
               THEN result.outcome = "None"
               ELSE /\ result.outcome = "ok"
                    /\ text.t = "obj" =>
                          JGet(result.content, "Environments")
                            = CoercedAsClaimed(JGet(text, "Environments"))]_vars

\* C22: building the environment list from a document load_json returned
\* never fails: every element decodes to a record, a missing name or path
\* being the empty string and a missing admin or color null.
C22_DecodingTotal ==
    [][last'.op = "load_environments"
        => LET items == JGet(last'.data, "Environments").items
               result == last'.result
           IN  /\ result.outcome = "ok"
               /\ Len(result.environments) = Len(items)
               /\ \A i \in 1..Len(items) :
                     items[i].t = "obj" =>
                       /\ {"Name", "name"} \cap DOMAIN items[i].members = {}
                             => result.environments[i].name = <<>>
                       /\ {"Path", "path"} \cap DOMAIN items[i].members = {}
                             => result.environments[i].path = <<>>
                       /\ {"Admin", "admin"} \cap DOMAIN items[i].members = {}
                             => result.environments[i].admin = JNull
                       /\ {"Color", "color"} \cap DOMAIN items[i].members = {}
                             => result.environments[i].color = JNull]_vars

\* one pair of enclosing double quotes removed, if there is one
UnquoteOnce(s) ==
    IF Len(s) >= 2 /\ s[1] = "\"" /\ s[Len(s)] = "\""
    THEN SubSeq(s, 2, Len(s) - 1) ELSE s

\* C25: normalise_path returns null for null only, and for a string removes
\* the surrounding whitespace and at most one pair of enclosing double
\* quotes, then replaces every slash by a backslash, and changes nothing
\* else.
C25_NormaliseAsClaimed ==
    [][last'.op = "normalise_path"
        => IF last'.path_value = None
           THEN last'.result = None
           ELSE last'.result =
                   ReplaceSlash(UnquoteOnce(Strip(last'.path_value, Whitespace)))]_vars

\* the call of run_command just made was a tool invocation: its line has a
\* first token that is "gam" or an allow-listed verb
ToolInvoked(l) ==
    /\ l.op = "run"
    /\ RunTokens(l).ok
    /\ RunTokens(l).args # <<>>
    /\ IsToolRoot(RunTokens(l).args[1])

Flagged == {i \in 1..Len(Listed) : Listed[i].path # normalise_path(Listed[i].path)}

\* C24: validate_paths reports the records whose path differs from its
\* normalised form, in registry order with their index; with apply_changes
\* and an issue it rewrites the paths of exactly those records to the
\* normalised form, keeps count, order, names, admin and color, writes a
\* backup and returns applied; otherwise it writes nothing and applied is
\* false.
C24_ValidateApplies ==
    [][(last'.op = "validate" /\ last'.result = "ok")
        => LET issues == last'.issues
               after == list_environments'
           IN  /\ Len(issues) = Cardinality(Flagged)
               /\ \A k \in 1..Len(issues) :
                     /\ issues[k].index + 1 \in Flagged
                     /\ k > 1 => issues[k - 1].index < issues[k].index
                     /\ issues[k].name = Listed[issues[k].index + 1].name
                     /\ issues[k].original = Listed[issues[k].index + 1].path
                     /\ issues[k].clean = normalise_path(issues[k].original)
               /\ last'.applied <=> (last'.apply_changes /\ Flagged # {})
               /\ IF last'.applied
                  THEN /\ Len(after) = Len(Listed)
                       /\ \A i \in 1..Len(Listed) :
                             /\ after[i].name = Listed[i].name
                             /\ after[i].admin = Listed[i].admin
                             /\ after[i].color = Listed[i].color
                             /\ after[i].path = IF i \in Flagged
                                                THEN normalise_path(Listed[i].path)
                                                ELSE Listed[i].path
                       /\ last'.backup_path = <<now>>
                       /\ backups'[now] = json[1]
                  ELSE /\ json' = json
                       /\ backups' = backups
                       /\ last'.backup_path = <<>>]_vars

\* both records were flagged and rewritten: the first now has the backslash
\* form of a path made with slashes, the second has lost its quotes
C24_Witness ==
    /\ last.op = "validate" /\ last.result = "ok" /\ last.applied
    /\ Len(last.issues) = 2
    /\ last.issues[2].original = <<"\"", "a", "\"">>
    /\ Listed[1].path = <<"\\", "r", "\\", "A", "B">>
    /\ Listed[2].path = <<"a">>
    /\ Listed[1].admin = <<"x">>

\* the folders on disk that hold the folder of a record: the folder itself
\* and its ancestors
HoldingFolders(disk, env) ==
    {q \in DOMAIN disk : q = FsPath(env.path) \/ IsUnder(FsPath(env.path), q)}

\* C26: delete_environment with delete_folder never removes from disk the
\* folder of another environment that remains registered, nor an ancestor
\* of such a folder.
C26_OtherFoldersKept ==
    [][(Deleted(last') /\ last'.delete_folder)
        => \A i \in 1..Len(list_environments') :
              HoldingFolders(fs, list_environments'[i]) \subseteq DOMAIN fs']_vars

\* C27: when get_environment_by_name(name) succeeds, delete_environment(name)
\* on the same registry succeeds and removes exactly the record the lookup
\* returns.
C27_LookupDeleteAgree ==
    [][(/\ last'.op = "delete"
        /\ LoadData # <<>>
        /\ get_environment_by_name(Listed, last'.name) # <<>>)
        => LET found == get_environment_by_name(Listed, last'.name)[1]
           IN  /\ Deleted(last')
               /\ list_environments' = SelectSeq(Listed, LAMBDA env : env # found)]_vars

====
